---- MODULE Spec2Model ----
(***************************************************************************)
(* Model of the request orchestration pipeline of backend/server.js: the   *)
(* POST /api/verify route.  A request is staged by the multer middleware,  *)
(* validated by the route handler, handed to a child process whose stdout  *)
(* and stderr are accumulated, and answered from the child's close event   *)
(* after the staged upload has been unlinked.  The form submitter of       *)
(* frontend/src/App.jsx (ClaimForm.handleSubmit and the App state it sets) *)
(* is modelled beside it.                                                  *)
(*                                                                         *)
(* Text is modelled as a sequence of one-character strings.  Node runs     *)
(* every callback to completion, so each callback is one action.           *)
(***************************************************************************)
EXTENDS Integers, Sequences, FiniteSets, TLC

\* ------------------------------------------------------------------ bounds
NumReq == 2        \* requests the server receives
MaxChunks == 2     \* data events delivered by the children, in total
MaxSubmits == 2    \* submissions of the form

Subs == 1..MaxSubmits

Reqs == 1..NumReq

\* ------------------------------------------------------------------ inputs
\* A multipart text field: absent (req.body.x is undefined) or a string.
Absent == [present |-> FALSE, text |-> <<>>]
Text(s) == [present |-> TRUE, text |-> s]

\* original_claim as submitted: absent, "", " " and "c".
Claims == {Absent, Text(<<>>), Text(<<" ">>), Text(<<"c">>)}

\* path.extname(file.originalname) of the uploads.
Exts == {".png", ".jpg"}

\* source_identifier as submitted: absent, "", " " and "s".
Sources == {Absent, Text(<<>>), Text(<<" ">>), Text(<<"s">>)}

\* The inputs of the runs with several requests in flight: a missing and a
\* present claim, no source identifier, uploads of one extension.
SomeClaims == {Text(<<>>), Text(<<"c">>)}
SomeSources == {Absent}
SomeExts == {".png"}

\* What a child writes in one stdout / stderr data event.
OutChunks == {<<"[">>, <<"]", " ">>}
ErrChunks == {<<"e">>}

\* The exit codes a child reports to the close event.
ExitCodes == {0, 1}

\* What the clock has gained since the previous upload read it: nothing
\* (the same millisecond) or something (a later one).
Elapsed == {0, 1}

\* ------------------------------------------------------------------ state
VARIABLES
    now,         \* Date.now() at the latest upload, in milliseconds
    disk,        \* the paths that exist under uploads/
    alive,       \* the node process has not died of an uncaught exception
    pc,          \* where each request is in the pipeline
    claim,       \* req.body.original_claim
    file,        \* req.file.path, or NoFile when req.file is undefined
    child,       \* the request's python process: "none", "running", "closed"
    outChunks,   \* the chunks the child has written to stdout, in order
    errChunks,   \* the chunks the child has written to stderr, in order
    resultData,  \* the handler's resultData buffer
    errorData,   \* the handler's errorData buffer
    code,        \* the exit code passed to the close handler, NoCode before
    parsed,      \* JSON.parse was called on the request's resultData
    resp,        \* the response written to res, NoResp before
    source,      \* req.body.source_identifier
    spawnCalls,  \* the engine arguments of the request's spawn calls, in order
    unlinkCalls, \* the paths the request passed to fs.unlinkSync, in order
    nresp        \* how many responses were written to the request's res

serverVars == <<now, disk, alive, pc, claim, file, child, outChunks, errChunks,
                resultData, errorData, code, parsed, resp, source, spawnCalls,
                unlinkCalls, nresp>>

\* The state of App and of the submissions of ClaimForm.
VARIABLES
    results,     \* useState(null): Null or the data of a response
    loading,     \* useState(false)
    error,       \* useState(null): Null or a message
    sub,         \* each handleSubmit call: "idle", "inflight", "settled"
    reply        \* what axios.post settled each call with, NoReply before

formVars == <<results, loading, error, sub, reply>>

vars == <<serverVars, formVars>>

NoFile == <<>>
NoCode == -1
NoResp == [status |-> 0]

\* null, and a value that is not null.
Null == <<>>
Some(v) == <<v>>

\* What axios.post settles with: a 2xx response with its data, an error
\* without a response, or an error whose response data has the given
\* details and error fields.
NoReply == [kind |-> "none", data |-> Null, details |-> Absent, error |-> Absent]
Success(v) == [kind |-> "ok", data |-> v, details |-> Absent, error |-> Absent]
NetworkError ==
    [kind |-> "network", data |-> Null, details |-> Absent, error |-> Absent]
HttpError(d, e) == [kind |-> "http", data |-> Null, details |-> d, error |-> e]

\* The details and error fields of an error response: absent, "" or a text.
DetailsFields == {Absent, Text(<<>>), Text(<<"d">>)}
ErrorFields == {Absent, Text(<<>>), Text(<<"m">>)}

\* The data of the 2xx responses: the JSON document [].
Datas == {<<>>}

\* ------------------------------------------------------------------ helpers
\* JavaScript truthiness of a text field: undefined and "" are falsy.
Truthy(f) == f.present /\ f.text # <<>>

\* filename: Date.now() + path.extname(file.originalname), under uploads/.
Filename(t, ext) == <<t, ext>>

\* The sentinel path 'null'.
NullPath == <<"null">>

\* Mutant of ImagePath: no sentinel, the absent file is passed as it is.
ImagePathRaw(f) == f

\* imagePath: req.file ? req.file.path : 'null'
ImagePath(f) == IF f # NoFile THEN f ELSE NullPath

\* The sentinel source identifier 'N/A'.
NotAvailable == <<"N", "/", "A">>

\* Mutant of SourceArg: the identifier is passed without the default.
SourceArgRaw(f) == f.text

\* source_identifier || 'N/A'
SourceArg(f) == IF Truthy(f) THEN f.text ELSE NotAvailable

\* The engine arguments of spawn, after the script path.
SpawnArgs(c, s, f) == <<c.text, SourceArg(s), ImagePath(f)>>

\* Mutant of Cleans: the cleanup tests imagePath, which is never falsy.
CleansAlways(f) == TRUE

\* if (req.file): the close handler unlinks imagePath.
Cleans(f) == f # NoFile

\* Mutant of UnlinkSync: the unlink is left out.
UnlinkSyncKeeps(d, p) == d

\* fs.unlinkSync(path) on a directory content that holds the path.
UnlinkSync(d, p) == d \ {p}

RECURSIVE Concat(_)
\* The chunks of a stream joined in arrival order.
Concat(chunks) ==
    IF chunks = <<>> THEN <<>> ELSE Head(chunks) \o Concat(Tail(chunks))

RECURSIVE SkipWs(_, _)
\* The first index at or after i that holds no JSON whitespace.
SkipWs(s, i) ==
    IF i <= Len(s) /\ s[i] = " " THEN SkipWs(s, i + 1) ELSE i

ParseFail == [ok |-> FALSE, val |-> <<>>, next |-> 0]

RECURSIVE ParseValue(_, _)
\* JSON value at index i of s, for documents over "[", "]" and " ":
\* an array "[" ws "]" or "[" ws value ws "]".
ParseValue(s, i) ==
    IF i > Len(s) \/ s[i] # "[" THEN ParseFail
    ELSE LET j == SkipWs(s, i + 1) IN
         IF j > Len(s) THEN ParseFail
         ELSE IF s[j] = "]" THEN [ok |-> TRUE, val |-> <<>>, next |-> j + 1]
         ELSE LET v == ParseValue(s, j) IN
              IF ~v.ok THEN ParseFail
              ELSE LET k == SkipWs(s, v.next) IN
                   IF k <= Len(s) /\ s[k] = "]"
                   THEN [ok |-> TRUE, val |-> <<v.val>>, next |-> k + 1]
                   ELSE ParseFail

\* JSON.parse(s): ok is FALSE where it throws a SyntaxError.
JSONParse(s) ==
    LET v == ParseValue(s, SkipWs(s, 1)) IN
    IF v.ok /\ SkipWs(s, v.next) > Len(s) THEN v ELSE ParseFail

\* ------------------------------------------------------------------ responses
BadRequest == [status |-> 400, error |-> "Claim text is required."]
Ok(body) == [status |-> 200, body |-> body]
ParseFailure(details) ==
    [status |-> 500, error |-> "Failed to parse agent result.", details |-> details]
ScriptFailure(details) ==
    [status |-> 500, error |-> "Agent script failed.", details |-> details]
\* express's default error handler, reached when multer passes an error on.
ServerError == [status |-> 500, error |-> "Internal Server Error"]

\* Mutant of IsSuccess: || in place of &&.
IsSuccessEither(c, out) == c = 0 \/ out # <<>>

\* Mutant of IsSuccess: the stdout buffer is not looked at.
IsSuccessExitOnly(c, out) == c = 0

\* code === 0 && resultData
IsSuccess(c, out) == c = 0 /\ out # <<>>

\* Mutant of CloseResponse: a parse failure is answered 200 with the raw text.
CloseResponseLenient(c, out, err) ==
    IF c = 0 /\ out # <<>>
    THEN IF JSONParse(out).ok THEN Ok(JSONParse(out).val) ELSE Ok(out)
    ELSE ScriptFailure(err)

\* The response the close handler writes.
CloseResponse(c, out, err) ==
    IF IsSuccess(c, out)
    THEN IF JSONParse(out).ok THEN Ok(JSONParse(out).val) ELSE ParseFailure(out)
    ELSE ScriptFailure(err)

TotalChunks ==
    LET RECURSIVE Sum(_)
        Sum(n) == IF n = 0 THEN 0
                  ELSE Len(outChunks[n]) + Len(errChunks[n]) + Sum(n - 1)
    IN Sum(NumReq)

\* ------------------------------------------------------------------ Init
Init ==
    /\ now = 0
    /\ disk = {}
    /\ alive = TRUE
    /\ pc = [r \in Reqs |-> "idle"]
    /\ claim = [r \in Reqs |-> Absent]
    /\ file = [r \in Reqs |-> NoFile]
    /\ child = [r \in Reqs |-> "none"]
    /\ outChunks = [r \in Reqs |-> <<>>]
    /\ errChunks = [r \in Reqs |-> <<>>]
    /\ resultData = [r \in Reqs |-> <<>>]
    /\ errorData = [r \in Reqs |-> <<>>]
    /\ code = [r \in Reqs |-> NoCode]
    /\ parsed = [r \in Reqs |-> FALSE]
    /\ resp = [r \in Reqs |-> NoResp]
    /\ source = [r \in Reqs |-> Absent]
    /\ spawnCalls = [r \in Reqs |-> <<>>]
    /\ unlinkCalls = [r \in Reqs |-> <<>>]
    /\ nresp = [r \in Reqs |-> 0]
    /\ results = Null
    /\ loading = FALSE
    /\ error = Null
    /\ sub = [i \in Subs |-> "idle"]
    /\ reply = [i \in Subs |-> NoReply]

\* ------------------------------------------------------------------ actions
\* Requests are numbered in the order they arrive.
Arrives(r) == pc[r] = "idle" /\ (IF r = 1 THEN TRUE ELSE pc[r - 1] # "idle")

\* upload.single('claimImage') on a request without a file part.
UploadNone(r, c, s) ==
    /\ alive
    /\ UNCHANGED formVars
    /\ Arrives(r)
    /\ pc' = [pc EXCEPT ![r] = "staged"]
    /\ claim' = [claim EXCEPT ![r] = c]
    /\ source' = [source EXCEPT ![r] = s]
    /\ UNCHANGED <<now, disk, alive, file, child, outChunks, errChunks,
                   resultData, errorData, code, parsed, resp,
                   spawnCalls, unlinkCalls, nresp>>

\* upload.single('claimImage') on a request with a file part: the file is
\* written under the name the filename callback gives.  Only that callback
\* reads the clock, which stands dt later than at the previous upload.
UploadFile(r, c, s, ext, dt) ==
    /\ alive
    /\ UNCHANGED formVars
    /\ Arrives(r)
    /\ now' = now + dt
    /\ pc' = [pc EXCEPT ![r] = "staged"]
    /\ claim' = [claim EXCEPT ![r] = c]
    /\ source' = [source EXCEPT ![r] = s]
    /\ file' = [file EXCEPT ![r] = Filename(now + dt, ext)]
    /\ disk' = disk \cup {Filename(now + dt, ext)}
    /\ UNCHANGED <<alive, child, outChunks, errChunks,
                   resultData, errorData, code, parsed, resp,
                   spawnCalls, unlinkCalls, nresp>>

\* Mutant of UploadFail: the error is swallowed and nothing is answered.
UploadFailSilent(r, c, s) ==
    /\ alive
    /\ UNCHANGED formVars
    /\ Arrives(r)
    /\ pc' = [pc EXCEPT ![r] = "failed"]
    /\ claim' = [claim EXCEPT ![r] = c]
    /\ source' = [source EXCEPT ![r] = s]
    /\ UNCHANGED <<now, disk, alive, file, child, outChunks, errChunks,
                   resultData, errorData, code, parsed, resp,
                   spawnCalls, unlinkCalls, nresp>>

\* upload.single('claimImage') on a request whose file part cannot be
\* written: multer passes the error on, the route handler never runs and
\* express answers 500.
UploadFail(r, c, s) ==
    /\ alive
    /\ UNCHANGED formVars
    /\ Arrives(r)
    /\ pc' = [pc EXCEPT ![r] = "failed"]
    /\ claim' = [claim EXCEPT ![r] = c]
    /\ source' = [source EXCEPT ![r] = s]
    /\ resp' = [resp EXCEPT ![r] = ServerError]
    /\ nresp' = [nresp EXCEPT ![r] = @ + 1]
    /\ UNCHANGED <<now, disk, alive, file, child, outChunks, errChunks,
                   resultData, errorData, code, parsed,
                   spawnCalls, unlinkCalls>>

\* Mutant of HandlerReject: the return is missing, the handler answers 400
\* and goes on to spawn the child.
HandlerRejectFallsThrough(r) ==
    /\ alive
    /\ UNCHANGED formVars
    /\ pc[r] = "staged"
    /\ ~Truthy(claim[r])
    /\ resp' = [resp EXCEPT ![r] = BadRequest]
    /\ nresp' = [nresp EXCEPT ![r] = @ + 1]
    /\ child' = [child EXCEPT ![r] = "running"]
    /\ spawnCalls' = [spawnCalls EXCEPT ![r] =
                         Append(@, SpawnArgs(claim[r], source[r], file[r]))]
    /\ pc' = [pc EXCEPT ![r] = "running"]
    /\ UNCHANGED <<now, disk, alive, claim, file, outChunks, errChunks,
                   resultData, errorData, code, parsed, source, unlinkCalls>>

\* The route handler, on a request whose claim is missing.
HandlerReject(r) ==
    /\ alive
    /\ UNCHANGED formVars
    /\ pc[r] = "staged"
    /\ ~Truthy(claim[r])
    /\ resp' = [resp EXCEPT ![r] = BadRequest]
    /\ nresp' = [nresp EXCEPT ![r] = @ + 1]
    /\ pc' = [pc EXCEPT ![r] = "done"]
    /\ UNCHANGED <<now, disk, alive, claim, file, child, outChunks, errChunks,
                   resultData, errorData, code, parsed, source,
                   spawnCalls, unlinkCalls>>

\* Mutant of HandlerSpawn: the response is written right after the spawn.
HandlerSpawnAnswers(r) ==
    /\ alive
    /\ UNCHANGED formVars
    /\ pc[r] = "staged"
    /\ Truthy(claim[r])
    /\ child' = [child EXCEPT ![r] = "running"]
    /\ spawnCalls' = [spawnCalls EXCEPT ![r] =
                         Append(@, SpawnArgs(claim[r], source[r], file[r]))]
    /\ pc' = [pc EXCEPT ![r] = "running"]
    /\ resp' = [resp EXCEPT ![r] = ScriptFailure(<<>>)]
    /\ nresp' = [nresp EXCEPT ![r] = @ + 1]
    /\ UNCHANGED <<now, disk, alive, claim, file, outChunks, errChunks,
                   resultData, errorData, code, parsed, source, unlinkCalls>>

\* The route handler, on a request with a claim: the child is spawned and
\* the data and close listeners are attached.
HandlerSpawn(r) ==
    /\ alive
    /\ UNCHANGED formVars
    /\ pc[r] = "staged"
    /\ Truthy(claim[r])
    /\ child' = [child EXCEPT ![r] = "running"]
    /\ spawnCalls' = [spawnCalls EXCEPT ![r] =
                         Append(@, SpawnArgs(claim[r], source[r], file[r]))]
    /\ pc' = [pc EXCEPT ![r] = "running"]
    /\ UNCHANGED <<now, disk, alive, claim, file, outChunks, errChunks,
                   resultData, errorData, code, parsed, resp, source,
                   unlinkCalls, nresp>>

\* Mutant of StdoutData: resultData is one buffer shared by all requests.
StdoutDataShared(r, chunk) ==
    /\ alive
    /\ UNCHANGED formVars
    /\ pc[r] = "running"
    /\ TotalChunks < MaxChunks
    /\ outChunks' = [outChunks EXCEPT ![r] = Append(@, chunk)]
    /\ resultData' = [q \in Reqs |-> resultData[q] \o chunk]
    /\ UNCHANGED <<now, disk, alive, pc, claim, file, child, errChunks,
                   errorData, code, parsed, resp, source,
                   spawnCalls, unlinkCalls, nresp>>

\* pythonProcess.stdout.on('data')
StdoutData(r, chunk) ==
    /\ alive
    /\ UNCHANGED formVars
    /\ pc[r] = "running"
    /\ TotalChunks < MaxChunks
    /\ outChunks' = [outChunks EXCEPT ![r] = Append(@, chunk)]
    /\ resultData' = [resultData EXCEPT ![r] = @ \o chunk]
    /\ UNCHANGED <<now, disk, alive, pc, claim, file, child, errChunks,
                   errorData, code, parsed, resp, source,
                   spawnCalls, unlinkCalls, nresp>>

\* pythonProcess.stderr.on('data')
StderrData(r, chunk) ==
    /\ alive
    /\ UNCHANGED formVars
    /\ pc[r] = "running"
    /\ TotalChunks < MaxChunks
    /\ errChunks' = [errChunks EXCEPT ![r] = Append(@, chunk)]
    /\ errorData' = [errorData EXCEPT ![r] = @ \o chunk]
    /\ UNCHANGED <<now, disk, alive, pc, claim, file, child, outChunks,
                   resultData, code, parsed, resp, source,
                   spawnCalls, unlinkCalls, nresp>>

\* Mutant of CloseRespond: a failed invocation is run again instead of
\* being answered.
CloseRespondRetries(r, c) ==
    /\ alive
    /\ UNCHANGED formVars
    /\ pc[r] = "running"
    /\ Cleans(file[r]) => ImagePath(file[r]) \in disk
    /\ code' = [code EXCEPT ![r] = c]
    /\ IF IsSuccess(c, resultData[r])
       THEN /\ child' = [child EXCEPT ![r] = "closed"]
            /\ disk' = IF Cleans(file[r])
                       THEN UnlinkSync(disk, ImagePath(file[r])) ELSE disk
            /\ unlinkCalls' = IF Cleans(file[r])
                              THEN [unlinkCalls EXCEPT ![r] =
                                       Append(@, ImagePath(file[r]))]
                              ELSE unlinkCalls
            /\ parsed' = [parsed EXCEPT ![r] = TRUE]
            /\ resp' = [resp EXCEPT ![r] =
                           CloseResponse(c, resultData[r], errorData[r])]
            /\ nresp' = [nresp EXCEPT ![r] = @ + 1]
            /\ pc' = [pc EXCEPT ![r] = "done"]
            /\ UNCHANGED spawnCalls
       ELSE /\ Len(spawnCalls[r]) < 2
            /\ spawnCalls' = [spawnCalls EXCEPT ![r] =
                                 Append(@, SpawnArgs(claim[r], source[r], file[r]))]
            /\ UNCHANGED <<child, disk, unlinkCalls, parsed, resp, nresp, pc>>
    /\ UNCHANGED <<now, alive, claim, file, outChunks, errChunks,
                   resultData, errorData, source>>

\* pythonProcess.on('close') where the cleanup does not throw: the staged
\* file, if any, is unlinked and the response is written.
CloseRespond(r, c) ==
    /\ alive
    /\ UNCHANGED formVars
    /\ pc[r] = "running"
    /\ Cleans(file[r]) => ImagePath(file[r]) \in disk
    /\ child' = [child EXCEPT ![r] = "closed"]
    /\ code' = [code EXCEPT ![r] = c]
    /\ disk' = IF Cleans(file[r])
               THEN UnlinkSync(disk, ImagePath(file[r])) ELSE disk
    /\ unlinkCalls' = IF Cleans(file[r])
                      THEN [unlinkCalls EXCEPT ![r] =
                               Append(@, ImagePath(file[r]))]
                      ELSE unlinkCalls
    /\ parsed' = [parsed EXCEPT ![r] = IsSuccess(c, resultData[r])]
    /\ resp' = [resp EXCEPT ![r] = CloseResponse(c, resultData[r], errorData[r])]
    /\ nresp' = [nresp EXCEPT ![r] = @ + 1]
    /\ pc' = [pc EXCEPT ![r] = "done"]
    /\ UNCHANGED <<now, alive, claim, file, outChunks, errChunks,
                   resultData, errorData, source, spawnCalls>>

\* pythonProcess.on('close') where fs.unlinkSync throws (the path is gone,
\* or the file system refuses): the exception leaves the listener uncaught,
\* nothing is written to res and the node process dies.
CloseThrow(r, c) ==
    /\ alive
    /\ UNCHANGED formVars
    /\ pc[r] = "running"
    /\ Cleans(file[r])
    /\ child' = [child EXCEPT ![r] = "closed"]
    /\ code' = [code EXCEPT ![r] = c]
    /\ unlinkCalls' = [unlinkCalls EXCEPT ![r] = Append(@, ImagePath(file[r]))]
    /\ pc' = [pc EXCEPT ![r] = "threw"]
    /\ alive' = FALSE
    /\ UNCHANGED <<now, disk, claim, file, outChunks, errChunks,
                   resultData, errorData, parsed, resp, source,
                   spawnCalls, nresp>>

\* One step of the server, for requests R submitting claims C, source
\* identifiers S and uploads of extensions E.
Step(R, C, S, E) ==
    \/ \E r \in R, c \in C, s \in S : UploadNone(r, c, s)
    \/ \E r \in R, c \in C, s \in S, ext \in E, dt \in Elapsed :
          UploadFile(r, c, s, ext, dt)
    \/ \E r \in R, c \in C, s \in S : UploadFail(r, c, s)
    \/ \E r \in R : HandlerReject(r)
    \/ \E r \in R : HandlerSpawn(r)
    \/ \E r \in R, chunk \in OutChunks : StdoutData(r, chunk)
    \/ \E r \in R, chunk \in ErrChunks : StderrData(r, chunk)
    \/ \E r \in R, c \in ExitCodes : CloseRespond(r, c)
    \/ \E r \in R, c \in ExitCodes : CloseThrow(r, c)

\* Concurrent requests.
Next == Step(Reqs, SomeClaims, SomeSources, SomeExts)
Spec == Init /\ [][Next]_vars

\* A single request, over every claim text, source identifier and extension.
NextSolo == Step({1}, Claims, Sources, Exts)
SpecSolo == Init /\ [][NextSolo]_vars

\* ------------------------------------------------------------------ form
DefaultMessage == <<"An unexpected error occurred.">>

\* Mutant of ErrorMessage: ?? in place of ||.
ErrorMessageNullish(rep) ==
    IF rep.kind = "http" /\ rep.details.present THEN rep.details.text
    ELSE IF rep.kind = "http" /\ rep.error.present THEN rep.error.text
    ELSE DefaultMessage

\* err.response?.data?.details || err.response?.data?.error || '...'
ErrorMessage(rep) ==
    IF rep.kind = "http" /\ Truthy(rep.details) THEN rep.details.text
    ELSE IF rep.kind = "http" /\ Truthy(rep.error) THEN rep.error.text
    ELSE DefaultMessage

\* handleSubmit up to its await: the three setters, then the post is sent.
\* Submissions are numbered in the order they are made.
Submit(i) ==
    /\ sub[i] = "idle"
    /\ UNCHANGED serverVars
    /\ IF i = 1 THEN TRUE ELSE sub[i - 1] # "idle"
    /\ loading' = TRUE
    /\ error' = Null
    /\ results' = Null
    /\ sub' = [sub EXCEPT ![i] = "inflight"]
    /\ UNCHANGED reply

\* handleSubmit after the await, the post fulfilled: try, then finally.
Resolve(i, v) ==
    /\ sub[i] = "inflight"
    /\ UNCHANGED serverVars
    /\ reply' = [reply EXCEPT ![i] = Success(v)]
    /\ results' = Some(v)
    /\ loading' = FALSE
    /\ sub' = [sub EXCEPT ![i] = "settled"]
    /\ UNCHANGED error

\* handleSubmit after the await, the post rejected: catch, then finally.
Reject(i, rep) ==
    /\ sub[i] = "inflight"
    /\ UNCHANGED serverVars
    /\ reply' = [reply EXCEPT ![i] = rep]
    /\ error' = Some(ErrorMessage(rep))
    /\ loading' = FALSE
    /\ sub' = [sub EXCEPT ![i] = "settled"]
    /\ UNCHANGED results

\* One step of the form.
NextForm ==
    \/ \E i \in Subs : Submit(i)
    \/ \E i \in Subs, v \in Datas : Resolve(i, v)
    \/ \E i \in Subs : Reject(i, NetworkError)
    \/ \E i \in Subs, d \in DetailsFields, e \in ErrorFields :
           Reject(i, HttpError(d, e))

SpecForm == Init /\ [][NextForm]_vars

\* ------------------------------------------------------------------ claims
\* The claim text is absent, empty or made of whitespace only.
Blank(f) == ~f.present \/ \A i \in DOMAIN f.text : f.text[i] = " "

\* The route handler has run on the request.
Handled(r) == pc[r] \in {"running", "done", "threw"}

\* The request is between its arrival and its response.
InFlight(r) == pc[r] \in {"staged", "running"}

\* The close handler of the request has written its response.
Answered(r) == child[r] = "closed" /\ resp[r] # NoResp

\* C1: every request whose claim text is absent, empty or whitespace-only is
\* answered 400 {error: 'Claim text is required.'} and no child process is
\* spawned for it.
C1_BlankClaimRejected ==
    \A r \in Reqs :
        Handled(r) /\ Blank(claim[r]) =>
            /\ resp[r] = [status |-> 400, error |-> "Claim text is required."]
            /\ child[r] = "none"

\* C2: a request answered 400 leaves no artifact under uploads/, also when
\* it carried a claimImage upload.
C2_RejectedLeavesNoFile ==
    \A r \in Reqs :
        resp[r].status = 400 => (file[r] = NoFile \/ file[r] \notin disk)

\* C3: when the response of a validated request that staged a file is
\* written, the staged file is no longer on disk, whatever the outcome
\* (success, process failure, parse failure).
C3_StagedFileGoneAtResponse ==
    [][\A r \in Reqs :
          (file[r] # NoFile /\ resp[r] = NoResp /\ resp'[r] # NoResp
             /\ child'[r] # "none")
          => file[r] \notin disk']_vars

C3_Witness ==
    \E r \in Reqs :
        /\ file[r] # NoFile
        /\ Answered(r)
        /\ resp[r].status = 200
        /\ file[r] \notin disk

\* C4: the staged paths of two requests in flight are distinct.
C4_StagedPathsDistinct ==
    \A r, s \in Reqs :
        (r # s /\ InFlight(r) /\ InFlight(s)
           /\ file[r] # NoFile /\ file[s] # NoFile)
        => file[r] # file[s]

\* C5: the close handler treats the invocation as a success (and parses
\* stdout) exactly when the exit code is 0 and the stdout buffer is
\* non-empty; its response is 200 with the parsed stdout as body exactly when
\* it is a success and stdout parses as JSON, and a 500 in every other case.
C5_SuccessIffZeroAndOutput ==
    \A r \in Reqs :
        Answered(r) =>
            /\ parsed[r] = (code[r] = 0 /\ resultData[r] # <<>>)
            /\ IF code[r] = 0 /\ resultData[r] # <<>>
                  /\ JSONParse(resultData[r]).ok
               THEN resp[r] = [status |-> 200,
                               body |-> JSONParse(resultData[r]).val]
               ELSE resp[r].status = 500

C5_Witness ==
    \E r \in Reqs :
        /\ Answered(r)
        /\ code[r] = 0
        /\ resultData[r] = <<"[", "]", " ">>
        /\ resp[r] = [status |-> 200, body |-> <<>>]

\* C6: when the child exits nonzero or its stdout buffer is empty, the
\* response is 500 {error: 'Agent script failed.', details: the accumulated
\* stderr text}, and stdout is not parsed.
C6_FailureCarriesStderr ==
    \A r \in Reqs :
        (Answered(r) /\ (code[r] # 0 \/ resultData[r] = <<>>)) =>
            /\ resp[r] = [status |-> 500, error |-> "Agent script failed.",
                          details |-> errorData[r]]
            /\ ~parsed[r]

C6_Witness ==
    \E r \in Reqs :
        /\ Answered(r)
        /\ code[r] = 1
        /\ resultData[r] # <<>>
        /\ errorData[r] = <<"e">>
        /\ resp[r].status = 500
        /\ resp[r].details = <<"e">>

\* C7: when the child exits 0 with a non-empty stdout that is no JSON
\* document, the response is 500 {error: 'Failed to parse agent result.',
\* details: the raw stdout buffer}.
C7_ParseFailureCarriesStdout ==
    \A r \in Reqs :
        (Answered(r) /\ code[r] = 0 /\ resultData[r] # <<>>
           /\ ~JSONParse(resultData[r]).ok) =>
            resp[r] = [status |-> 500, error |-> "Failed to parse agent result.",
                       details |-> resultData[r]]

C7_Witness ==
    \E r \in Reqs :
        /\ Answered(r)
        /\ code[r] = 0
        /\ resultData[r] = <<"]", " ", "[">>
        /\ resp[r].status = 500
        /\ resp[r].details = <<"]", " ", "[">>

\* C8: a request whose cleanup failed to delete the staged artifact is
\* still answered with the response its invocation outcome determines.
C8_CleanupFailureKeepsResponse ==
    \A r \in Reqs :
        pc[r] = "threw" =>
            resp[r] = CloseResponse(code[r], resultData[r], errorData[r])

\* C9: a request with a child is answered only after the child's close
\* event.
C9_AnsweredOnlyAfterClose ==
    \A r \in Reqs :
        (child[r] # "none" /\ resp[r] # NoResp) => child[r] = "closed"

C9_Witness ==
    \E r, s \in Reqs :
        /\ Answered(r)
        /\ child[s] = "running"
        /\ resp[s] = NoResp

Spawned(r) == child[r] # "none"

\* C11: the third argument passed to the engine is "null" for a request
\* without an uploaded file and the request's staged path otherwise.
C11_ArtifactArgument ==
    \A r \in Reqs :
        /\ Spawned(r) => spawnCalls[r] # <<>>
        /\ \A i \in DOMAIN spawnCalls[r] :
               spawnCalls[r][i][3] =
                   IF file[r] = NoFile THEN <<"null">> ELSE file[r]

C11_Witness ==
    \E r, s \in Reqs :
        /\ file[r] = NoFile /\ Spawned(r) /\ spawnCalls[r][1][3] = <<"null">>
        /\ file[s] # NoFile /\ Spawned(s) /\ spawnCalls[s][1][3] = file[s]

\* C12 as stated: the second argument passed to the engine is "N/A" when
\* the source identifier is absent or blank (empty or whitespace only) and
\* the submitted identifier otherwise.
C12_BlankSourceDefaults ==
    \A r \in Reqs :
        \A i \in DOMAIN spawnCalls[r] :
            spawnCalls[r][i][2] =
                IF Blank(source[r]) THEN <<"N", "/", "A">> ELSE source[r].text

\* C12 as amended: the second argument passed to the engine is "N/A" when
\* the source identifier is absent or the empty string, and the submitted
\* identifier unchanged otherwise, a whitespace-only one included.
C12_EmptySourceDefaults ==
    \A r \in Reqs :
        /\ Spawned(r) => spawnCalls[r] # <<>>
        /\ \A i \in DOMAIN spawnCalls[r] :
               spawnCalls[r][i][2] =
                   IF ~source[r].present \/ source[r].text = <<>>
                   THEN <<"N", "/", "A">> ELSE source[r].text

C12_Witness ==
    \E r \in Reqs :
        /\ ~source[r].present
        /\ Spawned(r)
        /\ spawnCalls[r][1][2] = <<"N", "/", "A">>

\* C13: a request whose upload could not be staged is answered 500 and no
\* child process is spawned for it.
C13_StagingFailureAborts ==
    \A r \in Reqs :
        pc[r] = "failed" =>
            /\ resp[r].status = 500
            /\ ~Spawned(r)
            /\ spawnCalls[r] = <<>>

C13_Witness ==
    \E r \in Reqs : pc[r] = "failed" /\ resp[r].status = 500 /\ ~Spawned(r)

\* C14: a request spawns at most one child over its lifetime: exactly one
\* once it has passed validation, none when it was rejected, whatever the
\* outcome of the invocation.
C14_SingleInvocation ==
    \A r \in Reqs :
        /\ Len(spawnCalls[r]) <= 1
        /\ (Handled(r) /\ Truthy(claim[r])) => Len(spawnCalls[r]) = 1
        /\ (Handled(r) /\ ~Truthy(claim[r])) => Len(spawnCalls[r]) = 0
        /\ pc[r] \in {"idle", "staged", "failed"} => Len(spawnCalls[r]) = 0

C14_Witness ==
    \E r, s \in Reqs :
        /\ Answered(r) /\ code[r] = 1 /\ Len(spawnCalls[r]) = 1
        /\ resp[s].status = 400 /\ Len(spawnCalls[s]) = 0

\* The step is one of request r's callbacks.
Moves(r) ==
    \/ pc'[r] # pc[r]
    \/ outChunks'[r] # outChunks[r]
    \/ errChunks'[r] # errChunks[r]

\* C16: no step of a request without a file changes the content of
\* uploads/ or passes a path (the sentinel "null") to fs.unlinkSync.
C16_NoFileNoDiskEffect ==
    [][\A r \in Reqs :
          (file'[r] = NoFile /\ Moves(r))
          => (disk' = disk /\ unlinkCalls'[r] = <<>>)]_vars

C16_Witness ==
    \E r \in Reqs :
        /\ file[r] = NoFile
        /\ Answered(r)
        /\ resp[r].status = 200
        /\ unlinkCalls[r] = <<>>
        /\ disk # {}

\* C17: at most one response is written per request.
C17_AtMostOneResponse ==
    \A r \in Reqs :
        /\ nresp[r] <= 1
        /\ (nresp[r] = 1) = (resp[r] # NoResp)

C17_Witness ==
    \E r, s \in Reqs :
        /\ Answered(r) /\ nresp[r] = 1
        /\ resp[s].status = 400 /\ nresp[s] = 1

\* C19: the staged artifact of a request is on disk for as long as its
\* child is running.
C19_ArtifactPresentWhileRunning ==
    \A r \in Reqs :
        (child[r] = "running" /\ file[r] # NoFile) => file[r] \in disk

\* The event loop runs the route handler of every staged request, and every
\* spawned child terminates: its close event is delivered.
Fairness ==
    \A r \in Reqs :
        /\ WF_vars(HandlerReject(r) \/ HandlerSpawn(r))
        /\ WF_vars(\E c \in ExitCodes : CloseRespond(r, c) \/ CloseThrow(r, c))

SpecFair == Spec /\ Fairness

\* C18: every request that reaches the handler is eventually answered.
C18_EveryRequestAnswered ==
    \A r \in Reqs : (pc[r] = "staged") ~> (resp[r] # NoResp)

\* The step in which submission i is rejected with an error response.
Fails(i) ==
    sub[i] = "inflight" /\ sub'[i] = "settled" /\ reply'[i].kind = "http"

\* C15 as stated: the message shown for a failed submission is the
\* response's details whenever it carries a details field, and its error
\* field otherwise.
C15_DetailsWhenPresent ==
    [][\A i \in Subs :
          Fails(i) =>
              error' = Some(IF reply'[i].details.present
                            THEN reply'[i].details.text
                            ELSE reply'[i].error.text)]_vars

\* C15 as amended: the message shown for a failed submission is the
\* response's details when that is present and non-empty; otherwise its
\* error field when that is present and non-empty; otherwise the text
\* 'An unexpected error occurred.'.
C15_DetailsWhenNonEmpty ==
    [][\A i \in Subs :
          Fails(i) =>
              error' = Some(
                  IF reply'[i].details.present /\ reply'[i].details.text # <<>>
                  THEN reply'[i].details.text
                  ELSE IF reply'[i].error.present /\ reply'[i].error.text # <<>>
                  THEN reply'[i].error.text
                  ELSE <<"An unexpected error occurred.">>)]_vars

C15_Witness ==
    \E i, j \in Subs :
        /\ sub[i] = "settled"
        /\ reply[i] = HttpError(Text(<<>>), Text(<<"m">>))
        /\ sub[j] = "settled"
        /\ reply[j] = HttpError(Text(<<"d">>), Text(<<"m">>))
        /\ j > i
        /\ error = Some(<<"d">>)

\* C20: loading is true whenever a submission is in flight, and once none
\* is in flight at most one of results and error is non-null.
C20_LoadingAndExclusive ==
    /\ (\E i \in Subs : sub[i] = "inflight") => loading
    /\ (\A i \in Subs : sub[i] # "inflight") => ~(results # Null /\ error # Null)

====
